---- MODULE Spec2Model ----
(***************************************************************************)
(* Model of the live DFA-alpha1 monitor:                                   *)
(*   - src/services/dfaService.ts  (preprocessRR, calculateF_n,            *)
(*     linearRegression, calculateDfaAlpha1; the first, interpolating      *)
(*     version of the file, lines 1-146)                                   *)
(*   - src/App.tsx                 (the onData callback: rolling buffer,   *)
(*     recomputation, current alpha1, throttled history)                   *)
(*   - src/services/bluetoothService.ts (the conversion of sensor counts   *)
(*     to ms and the status events of the monitor)                         *)
(*                                                                         *)
(* Four specifications share the module:                                   *)
(*   SpecPre        runs preprocessRR one loop iteration per step on every *)
(*                  input of at most MaxLen samples drawn from RawVals;    *)
(*   SpecPreSensor  the same on values the sensor can deliver;             *)
(*   SpecDfa        calls the exported calculateDfaAlpha1 directly, on     *)
(*                  windows around the 50-sample threshold;                *)
(*   Spec           is the App: connection events, deliveries of interval  *)
(*                  batches and the renders that apply the state updates   *)
(*                  the handlers asked for, under a non-decreasing clock.  *)
(***************************************************************************)
EXTENDS Integers, Sequences, FiniteSets, TLC

VARIABLES
    \* ---- preprocessRR / calculateDfaAlpha1 as running functions ----
    rrIntervals,    \* the argument of the running call
    pc,             \* position of the running call
    idx,            \* preprocessRR's loop index i, 1-based
    filtered,       \* preprocessRR's local array `filtered`
    fate,           \* per processed input sample: which branch handled it
    ret,            \* value returned by preprocessRR
    cleanRR,        \* calculateDfaAlpha1's local cleanRR
    integratedSeries, \* calculateDfaAlpha1's local integratedSeries
    boxAt,          \* position of the box-size loop in boxSizes, 1-based
    logN,           \* box sizes whose (log n, log F(n)) pair was recorded
    alpha,          \* value returned by calculateDfaAlpha1
    previous,       \* the call before, on the same array: what it returned
                    \* and what it computed the slope from
    residue,        \* per cleaned sequence integrated so far whose F(n)
                    \* hangs on the rounding: the box sizes at which it
                    \* leaves F(n) > 0
    \* ---- App ----
    rrBuffer,       \* rrBufferRef.current
    currentAlpha1,  \* useState currentAlpha1, as of the last render
    history,        \* useState history, as of the last render
    heartRate,      \* useState heartRate, as of the last render
    queued,         \* the calls of setHeartRate, setCurrentAlpha1, setHistory
                    \* and setBtState made since the last render, in order
    now,            \* Date.now() when it was last read
    delivered,      \* every interval ever handed to onData, in order
    dfaArg,         \* the calculateDfaAlpha1 call made by the last delivery
    deliveries,     \* number of onData calls so far
    btState,        \* useState btState, as of the last render
    sessionStart,   \* number of intervals delivered before the latest connect
    \* ---- BluetoothMonitor ----
    connects,       \* the connect() calls under way: the await each is at
    device,         \* this.device
    linkUp,         \* device.gatt.connected
    notifying,      \* handleCharacteristicValueChanged listens on a
                    \* characteristic of the link that is up
    clicks          \* number of connect() calls so far

vars == <<rrIntervals, pc, idx, filtered, fate, ret,
          cleanRR, integratedSeries, boxAt, logN, alpha, previous, residue,
          rrBuffer, currentAlpha1, history, heartRate, queued, now,
          delivered, dfaArg, deliveries, btState, sessionStart,
          connects, device, linkUp, notifying, clicks>>

preVars == <<idx, filtered, fate, ret>>
dfaVars == <<cleanRR, integratedSeries, boxAt, logN, alpha, previous,
             residue>>
appData == <<rrBuffer, currentAlpha1, history, heartRate, queued, now,
             delivered, dfaArg, deliveries>>
appVars == <<rrBuffer, currentAlpha1, history, heartRate, queued, now,
             delivered, dfaArg, deliveries, btState, sessionStart,
             connects, device, linkUp, notifying, clicks>>

(***************************************************************************)
(* Bounds of the model.                                                    *)
(***************************************************************************)
\* longest input of preprocessRR explored exhaustively in SpecPre
MaxLen == 4

(***************************************************************************)
(* JavaScript numbers.  Every finite number the program stores is a dyadic *)
(* rational: an input, a sensor count times 125/128 (part_000 line 170) or *)
(* a mean of two such numbers (line 99).  A finite number is kept exactly  *)
(* as v / 2^e ms, in lowest terms (v odd or e = 0); NaN and the two        *)
(* infinities are values of their own.  A numerator the model can hold has *)
(* fewer than 32 bits, so the double of the program holds the same number  *)
(* without rounding.                                                       *)
(***************************************************************************)
Pow2(e) == 2 ^ e

\* v / 2^e in lowest terms
RECURSIVE Dyadic(_, _)
Dyadic(v, e) ==
    IF e > 0 /\ v % 2 = 0 THEN Dyadic(v \div 2, e - 1)
    ELSE [k |-> "fin", v |-> v, e |-> e]

Ms(m)  == Dyadic(m, 0)
NaN    == [k |-> "nan", v |-> 0, e |-> 0]
PInf   == [k |-> "inf", v |-> 1, e |-> 0]
NInf   == [k |-> "inf", v |-> -1, e |-> 0]

IsFinite(a) == a.k = "fin"
IsNaN(a)    == a.k = "nan"

MaxOf(x, y) == IF x < y THEN y ELSE x

\* the numerator of the finite number a over the denominator 2^e, e >= a.e
NumAt(a, e) == a.v * Pow2(e - a.e)

\* a < b under IEEE-754: false as soon as one side is NaN
Lt(a, b) ==
    /\ ~IsNaN(a)
    /\ ~IsNaN(b)
    /\ IF IsFinite(a) /\ IsFinite(b)
       THEN LET e == MaxOf(a.e, b.e) IN NumAt(a, e) < NumAt(b, e)
       ELSE IF IsFinite(a) THEN b.v > 0
       ELSE IF IsFinite(b) THEN a.v < 0
       ELSE a.v < b.v

Gt(a, b) == Lt(b, a)

Neg(a) == IF IsNaN(a) THEN NaN ELSE [k |-> a.k, v |-> 0 - a.v, e |-> a.e]

Add(a, b) ==
    IF IsNaN(a) \/ IsNaN(b) THEN NaN
    ELSE IF IsFinite(a) /\ IsFinite(b)
         THEN LET e == MaxOf(a.e, b.e) IN Dyadic(NumAt(a, e) + NumAt(b, e), e)
    ELSE IF IsFinite(a) THEN b
    ELSE IF IsFinite(b) THEN a
    ELSE IF a.v = b.v THEN a
    ELSE NaN

Sub(a, b) == Add(a, Neg(b))

\* Math.abs
Abs(a) ==
    IF IsNaN(a) THEN NaN
    ELSE IF a.v < 0 THEN Neg(a) ELSE a

\* x / 2
Half(a) == IF IsFinite(a) THEN Dyadic(a.v, a.e + 1) ELSE a

\* JavaScript truthiness of a number: everything but 0 and NaN
Truthy(a) == ~IsNaN(a) /\ a.v # 0

\* (diff / prev) > 0.3, for diff = Math.abs(val - prev) >= 0 or NaN.
\* x/0 is +Infinity for x > 0, 0/0 and Infinity/Infinity are NaN, and a
\* quotient by a negative number is <= 0.
QuotientOver30(diff, prev) ==
    IF IsNaN(diff) \/ IsNaN(prev) THEN FALSE
    ELSE IF ~IsFinite(prev) THEN FALSE
    ELSE IF prev.v = 0 THEN diff.v > 0
    ELSE IF prev.v < 0 THEN FALSE
    ELSE IF ~IsFinite(diff) THEN TRUE
    ELSE LET e == MaxOf(diff.e, prev.e) IN
         10 * NumAt(diff, e) > 3 * NumAt(prev, e)

(***************************************************************************)
(* preprocessRR (dfaService.ts 52-110)                                     *)
(***************************************************************************)
MIN_RR == 300
MAX_RR == 1300

Last(s) == s[Len(s)]

\* step 2, the absolute range check: val < MIN_RR || val > MAX_RR
OutOfRange(val) == Lt(val, Ms(MIN_RR)) \/ Gt(val, Ms(MAX_RR))

\* step 3, the quotient filter against filtered[filtered.length - 1]
JumpTooLarge(f, val) ==
    /\ Len(f) > 0
    /\ QuotientOver30(Abs(Sub(val, Last(f))), Last(f))

\* the value of isValid when step 4 is reached
IsValid(f, rr, i) == ~OutOfRange(rr[i]) /\ ~JumpTooLarge(f, rr[i])

\* `prev && next` and `else if (prev)`: null, 0 and NaN are all falsy
HasPrev(f) == Len(f) > 0 /\ Truthy(Last(f))
HasNext(rr, i) == i + 1 <= Len(rr) /\ Truthy(rr[i + 1])

\* the branch of step 4 taken by iteration i
Branch(f, rr, i) ==
    IF IsValid(f, rr, i) THEN "accept"
    ELSE IF HasPrev(f) /\ HasNext(rr, i) THEN "interpolate"
    ELSE IF HasPrev(f) THEN "clamp"
    ELSE "drop"

\* `filtered` after iteration i of the loop
LoopBody(f, rr, i) ==
    LET b == Branch(f, rr, i) IN
    IF b = "accept" THEN Append(f, rr[i])
    ELSE IF b = "interpolate" THEN Append(f, Half(Add(Last(f), rr[i + 1])))
    ELSE IF b = "clamp" THEN Append(f, Last(f))
    ELSE f

\* iterations lo..hi of the loop, in order.  The range is split in halves
\* only to keep the evaluation stack shallow on windows of 200 samples.
RECURSIVE LoopOver(_, _, _, _)
LoopOver(f, rr, lo, hi) ==
    IF lo > hi THEN f
    ELSE IF lo = hi THEN LoopBody(f, rr, lo)
    ELSE LET mid   == (lo + hi) \div 2
             first == LoopOver(f, rr, lo, mid)
         IN  IF Len(first) >= 0 THEN LoopOver(first, rr, mid + 1, hi) ELSE first

\* mutant of preprocessRR: short inputs go through the loop as well
preprocessRR_filtersShort(rr) == LoopOver(<<>>, rr, 1, Len(rr))

preprocessRR(rr) == IF Len(rr) < 3 THEN rr ELSE LoopOver(<<>>, rr, 1, Len(rr))

(***************************************************************************)
(* linearRegression (dfaService.ts 7-22).  x and y are integer sequences;  *)
(* slope = num / den and intercept = (sumY - slope * sumX) / n, kept as    *)
(* the integers they are made of.  den = 0 is the division 0/0 (n = 0 or a *)
(* single point), whose result is NaN.                                     *)
(***************************************************************************)
RECURSIVE SumTo(_, _)
SumTo(s, j) == IF j = 0 THEN 0 ELSE SumTo(s, j - 1) + s[j]

RECURSIVE DotTo(_, _, _)
DotTo(s, t, j) == IF j = 0 THEN 0 ELSE DotTo(s, t, j - 1) + s[j] * t[j]

linearRegression(x, y) ==
    LET n     == Len(x)
        sumX  == SumTo(x, n)
        sumY  == SumTo(y, n)
        sumXY == DotTo(x, y, n)
        sumXX == DotTo(x, x, n)
    IN  [n    |-> n,
         sumX |-> sumX,
         sumY |-> sumY,
         num  |-> n * sumXY - sumX * sumY,
         den  |-> n * sumXX - sumX * sumX]

(***************************************************************************)
(* The integration step of calculateDfaAlpha1 (dfaService.ts 119-126).     *)
(* With e the largest exponent among the samples, meanRR = sum / length is *)
(* the rational total / (length * 2^e) ms and every element of the series  *)
(* a multiple of 1 / (length * 2^e) ms.  The series is kept as integer     *)
(* numerators `num` over one common denominator `den`, in lowest terms.    *)
(* The doubles of the program are these rationals when meanRR is a dyadic  *)
(* rational (`exact`); otherwise meanRR, every rr - meanRR and every       *)
(* running sum are rounded, and the doubles lie within rounding error of   *)
(* the rationals.                                                          *)
(***************************************************************************)
\* the largest exponent among samples lo..hi
RECURSIVE MaxExp(_, _, _)
MaxExp(clean, lo, hi) ==
    IF lo > hi THEN 0
    ELSE IF lo = hi THEN clean[lo].e
    ELSE LET mid == (lo + hi) \div 2 IN
         MaxOf(MaxExp(clean, lo, mid), MaxExp(clean, mid + 1, hi))

\* cleanRR.reduce((a, b) => a + b, 0), over samples lo..hi, times 2^e
RECURSIVE SumV(_, _, _, _)
SumV(clean, e, lo, hi) ==
    IF lo > hi THEN 0
    ELSE IF lo = hi THEN NumAt(clean[lo], e)
    ELSE LET mid == (lo + hi) \div 2 IN
         SumV(clean, e, lo, mid) + SumV(clean, e, mid + 1, hi)

\* lines 122-126 over samples lo..hi: acc.sum is currentSum and acc.out the
\* series pushed so far, both times length * 2^e; rr - meanRR times
\* length * 2^e is length * rr * 2^e - total.
RECURSIVE Accumulate(_, _, _, _, _, _)
Accumulate(acc, clean, e, total, lo, hi) ==
    IF lo > hi THEN acc
    ELSE IF lo = hi THEN
        LET currentSum == acc.sum + (Len(clean) * NumAt(clean[lo], e) - total) IN
        [sum |-> currentSum, out |-> Append(acc.out, currentSum)]
    ELSE LET mid   == (lo + hi) \div 2
             first == Accumulate(acc, clean, e, total, lo, mid)
         IN  IF Len(first.out) >= 0
             THEN Accumulate(first, clean, e, total, mid + 1, hi)
             ELSE first

RECURSIVE Gcd(_, _)
Gcd(a, b) == IF b = 0 THEN a ELSE Gcd(b, a % b)

Magnitude(x) == IF x < 0 THEN 0 - x ELSE x

RECURSIVE GcdOver(_, _, _)
GcdOver(s, lo, hi) ==
    IF lo > hi THEN 0
    ELSE IF lo = hi THEN Magnitude(s[lo])
    ELSE LET mid == (lo + hi) \div 2 IN
         Gcd(GcdOver(s, lo, mid), GcdOver(s, mid + 1, hi))

RECURSIVE IsPowerOfTwo(_)
IsPowerOfTwo(n) ==
    IF n = 1 THEN TRUE
    ELSE IF n < 1 \/ n % 2 = 1 THEN FALSE
    ELSE IsPowerOfTwo(n \div 2)

AllFinite(clean) == \A j \in 1..Len(clean) : IsFinite(clean[j])

\* mutant of Integrate: the running sum of the samples, the mean not
\* subtracted
Integrate_notCentred(clean) ==
    IF ~AllFinite(clean)
    THEN [num |-> [j \in 1..Len(clean) |-> 0], den |-> 1,
          finite |-> FALSE, exact |-> FALSE]
    ELSE LET e == MaxExp(clean, 1, Len(clean)) IN
         [num |-> [j \in 1..Len(clean) |-> SumV(clean, e, 1, j)],
          den |-> Pow2(e),
          finite |-> TRUE, exact |-> TRUE]

\* A NaN or an infinity in cleanRR makes meanRR NaN or infinite, and with it
\* every rr - meanRR and every running sum: `finite` is FALSE and no element
\* of the series is a finite number.
Integrate(clean) ==
    IF ~AllFinite(clean)
    THEN [num |-> [j \in 1..Len(clean) |-> 0], den |-> 1,
          finite |-> FALSE, exact |-> FALSE]
    ELSE
    LET e     == MaxExp(clean, 1, Len(clean))
        total == SumV(clean, e, 1, Len(clean))
        raw   == Accumulate([sum |-> 0, out |-> <<>>], clean, e, total,
                            1, Len(clean)).out
        q     == Len(clean) * Pow2(e)
        g     == Gcd(q, GcdOver(raw, 1, Len(clean)))
    IN  [num |-> [j \in 1..Len(clean) |-> raw[j] \div g],
         den |-> q \div g,
         finite |-> TRUE,
         exact |-> IsPowerOfTwo(q \div g)]

(***************************************************************************)
(* calculateF_n (dfaService.ts 25-50).  The value sqrt(total / (numBoxes   *)
(* * boxSize)) is irrational in general; what calculateDfaAlpha1 reads of  *)
(* it is only whether it is > 0, so the model returns its class:           *)
(*   "NaN"       numBoxes = 0: sqrt(0 / 0); or a series that is not finite *)
(*   "zero"      every residual of every box is 0, in the doubles too      *)
(*   "positive"  some residual is not 0                                    *)
(*   "rounded"   every residual is 0 in exact arithmetic, but the series   *)
(*               is rounded: F(n) is 0 or a positive number of the size of *)
(*               the rounding error, as the rounding falls                 *)
(* A residual y[k] - (slope * k + intercept) is 0 exactly when its         *)
(* numerator over n * den is.  On an exact series a box on a straight line *)
(* has a slope and an intercept that are dyadic rationals, so the doubles  *)
(* give residuals of 0 as well; a residual that is not 0 is larger than    *)
(* any rounding error by orders of magnitude.                              *)
(***************************************************************************)
numBoxesOf(series, boxSize) == Len(series.num) \div boxSize

segmentX(boxSize) == [k \in 1..boxSize |-> k - 1]

segmentY(series, i, boxSize) ==
    [k \in 1..boxSize |-> series.num[i * boxSize + k]]

ResidualNum(fit, y, k) ==
    fit.n * fit.den * y[k + 1] - fit.n * fit.num * k
        - (fit.den * fit.sumY - fit.num * fit.sumX)

\* The residuals of a box do not change when y is shifted by a constant and
\* scale with y: whether one of them is not 0 is read from the segment
\* shifted to start at 0 and divided by the gcd of its elements, which
\* keeps the products of ResidualNum small.
Reduced(y) ==
    LET shifted == [k \in 1..Len(y) |-> y[k] - y[1]]
        g       == GcdOver(shifted, 1, Len(y))
    IN  IF g = 0 THEN shifted ELSE [k \in 1..Len(y) |-> shifted[k] \div g]

BoxHasResidual(series, i, boxSize) ==
    LET y   == Reduced(segmentY(series, i, boxSize))
        fit == linearRegression(segmentX(boxSize), y)
    IN  \E k \in 0..(boxSize - 1) : ResidualNum(fit, y, k) # 0

calculateF_n(series, boxSize) ==
    LET numBoxes == numBoxesOf(series, boxSize) IN
    IF numBoxes = 0 \/ ~series.finite THEN "NaN"
    ELSE IF \E i \in 0..(numBoxes - 1) : BoxHasResidual(series, i, boxSize)
         THEN "positive"
    ELSE IF series.exact THEN "zero"
    ELSE "rounded"

(***************************************************************************)
(* calculateDfaAlpha1 (dfaService.ts 112-146).                             *)
(* The result is null, NaN or a finite slope.  A finite slope is the       *)
(* regression of log10 F(n) on log10 n over the recorded box sizes; its    *)
(* digits are not modelled, the result carries the recorded box sizes.     *)
(* log10 n is kept to three decimals, enough to tell the box sizes apart   *)
(* in the denominator n * sumXX - sumX^2 of the final regression.          *)
(* `res` is the set of box sizes at which the rounding of the doubles     *)
(* leaves F(n) > 0 on a series whose F(n) is "rounded".  Lines 119-136     *)
(* are floating-point operations on the elements of cleanRR, and the same  *)
(* operations on the same operands give the same doubles: the outcome is   *)
(* any subset of the box sizes whose F(n) is "rounded" (Roundings) when a  *)
(* cleaned sequence is integrated for the first time, and the same subset  *)
(* whenever an equal cleaned sequence is integrated again (Remember).      *)
(* Nothing is assumed of a call that arrives at another cleaned sequence.  *)
(***************************************************************************)
MIN_SAMPLES == 50

boxSizes == <<4, 5, 6, 7, 8, 9, 10, 11, 12, 13, 14, 15, 16>>

Log10Milli(n) ==
    CASE n = 4 -> 602 [] n = 5 -> 699 [] n = 6 -> 778 [] n = 7 -> 845
      [] n = 8 -> 903 [] n = 9 -> 954 [] n = 10 -> 1000 [] n = 11 -> 1041
      [] n = 12 -> 1079 [] n = 13 -> 1114 [] n = 14 -> 1146 [] n = 15 -> 1176
      [] n = 16 -> 1204

AlphaNull     == [k |-> "null", pts |-> <<>>]
AlphaNaN(ns)  == [k |-> "nan", pts |-> ns]
AlphaNum(ns)  == [k |-> "num", pts |-> ns]
\* no call has returned yet
NoResult      == [k |-> "none", pts |-> <<>>]

\* line 136: Fn > 0
IsPositive(Fn, n, res) ==
    Fn = "positive" \/ (Fn = "rounded" /\ n \in res)

\* lines 134-140: one iteration of the box-size loop
RecordBox(series, ns, n, res) ==
    IF IsPositive(calculateF_n(series, n), n, res) THEN Append(ns, n) ELSE ns

RECURSIVE BoxLoop(_, _, _, _)
BoxLoop(series, ns, j, res) ==
    IF j > Len(boxSizes) THEN ns
    ELSE BoxLoop(series, RecordBox(series, ns, boxSizes[j], res), j + 1,
                 res)

\* lines 143-145: the slope of the recorded pairs
FinalSlope(ns) ==
    LET x == [j \in 1..Len(ns) |-> Log10Milli(ns[j])] IN
    IF linearRegression(x, x).den = 0 THEN AlphaNaN(ns) ELSE AlphaNum(ns)

calculateDfaAlpha1(rr, res) ==
    LET clean == preprocessRR(rr) IN
    IF Len(clean) < MIN_SAMPLES THEN AlphaNull
    ELSE FinalSlope(BoxLoop(Integrate(clean), <<>>, 1, res))

BoxSizeSet == {boxSizes[j] : j \in 1..Len(boxSizes)}

\* the box sizes at which F(n) > 0 (line 136) hangs on the rounding of the
\* doubles
RoundedBoxes(series) ==
    IF series.exact \/ ~series.finite THEN {}
    ELSE {n \in BoxSizeSet : calculateF_n(series, n) = "rounded"}

RoundedOf(clean) ==
    IF Len(clean) < MIN_SAMPLES THEN {} ELSE RoundedBoxes(Integrate(clean))

\* nothing integrated yet
NoRounding == [w \in {} |-> {}]

\* what the rounding leaves on the cleaned sequence, `memo` holding what it
\* left on the sequences integrated before
ResidueOf(memo, clean) == IF clean \in DOMAIN memo THEN memo[clean] ELSE {}

\* the outcomes the rounding can have on the cleaned sequence: the one it
\* had before on an equal sequence, or else any subset of the rounded box
\* sizes
RoundingsAmong(memo, clean, rounded) ==
    IF clean \in DOMAIN memo THEN {memo[clean]}
    ELSE SUBSET rounded

Roundings(memo, clean) == RoundingsAmong(memo, clean, RoundedOf(clean))

RememberAmong(memo, clean, rounded, res) ==
    IF clean \in DOMAIN memo \/ rounded = {} THEN memo
    ELSE [w \in DOMAIN memo \cup {clean} |->
              IF w = clean THEN res ELSE memo[w]]

Remember(memo, clean, res) ==
    RememberAmong(memo, clean, RoundedOf(clean), res)

\* what a call leaves to compare the next one with: the value returned and
\* the arrays the slope was computed from
Returned(a, clean, series, ns) ==
    [result |-> a, clean |-> clean, series |-> series, pairs |-> ns]

(***************************************************************************)
(* SpecPre: preprocessRR run step by step on every bounded input.          *)
(***************************************************************************)
RawVals == {NaN, PInf, Ms(-800), Ms(0), Ms(50), Ms(800), Ms(1040), Ms(1300)}

RECURSIVE SeqsUpTo(_, _)
SeqsUpTo(S, n) ==
    IF n = 0 THEN {<<>>}
    ELSE LET shorter == SeqsUpTo(S, n - 1) IN
         shorter \cup {Append(s, x) : s \in {t \in shorter : Len(t) = n - 1}, x \in S}

\* App.tsx 12-17: useState<BluetoothState>
Disconnected(error) ==
    [isConnected |-> FALSE, isConnecting |-> FALSE,
     deviceName |-> "null", error |-> error]

\* the calculateDfaAlpha1 call of a delivery: its argument and what it returned
NotCalled == [called |-> FALSE, arg |-> <<>>, result |-> AlphaNull]
CalledWith(w, a) == [called |-> TRUE, arg |-> w, result |-> a]

\* App.tsx 12-26: the App as mounted, the monitor (bluetoothService.ts 83-92)
\* as constructed: nothing connected, nothing delivered
AppIdle ==
    /\ btState = Disconnected("null")
    /\ sessionStart = 0
    /\ connects = <<>>
    /\ device = "null"
    /\ linkUp = FALSE
    /\ notifying = FALSE
    /\ clicks = 0
    /\ rrBuffer = <<>>
    /\ currentAlpha1 = AlphaNull
    /\ history = <<>>
    /\ heartRate = 0
    /\ queued = <<>>
    /\ now = 0
    /\ delivered = <<>>
    /\ dfaArg = NotCalled
    /\ deliveries = 0

PreIdle ==
    /\ idx = 1
    /\ filtered = <<>>
    /\ fate = <<>>
    /\ ret = <<>>

DfaIdle ==
    /\ cleanRR = <<>>
    /\ integratedSeries = [num |-> <<>>, den |-> 1, finite |-> TRUE,
                           exact |-> TRUE]
    /\ boxAt = 1
    /\ logN = <<>>
    /\ alpha = AlphaNull
    /\ previous = Returned(NoResult, <<>>, <<>>, <<>>)

InitPre ==
    /\ rrIntervals \in SeqsUpTo(RawVals, MaxLen)
    /\ residue = NoRounding
    /\ pc = "entry"
    /\ PreIdle
    /\ DfaIdle
    /\ AppIdle

\* line 54: inputs shorter than 3 are returned as they are
PreShort ==
    /\ pc = "entry"
    /\ Len(rrIntervals) < 3
    /\ pc' = "done"
    /\ ret' = rrIntervals
    /\ UNCHANGED <<rrIntervals, idx, filtered, fate>>
    /\ UNCHANGED <<dfaVars, appVars>>

\* line 56: const filtered = []
PreEnter ==
    /\ pc = "entry"
    /\ Len(rrIntervals) >= 3
    /\ pc' = "loop"
    /\ filtered' = <<>>
    /\ idx' = 1
    /\ UNCHANGED <<rrIntervals, fate, ret>>
    /\ UNCHANGED <<dfaVars, appVars>>

\* lines 64-107: one iteration of the for loop
PreLoop ==
    /\ pc = "loop"
    /\ idx <= Len(rrIntervals)
    /\ filtered' = LoopBody(filtered, rrIntervals, idx)
    /\ fate' = Append(fate, Branch(filtered, rrIntervals, idx))
    /\ idx' = idx + 1
    /\ UNCHANGED <<rrIntervals, pc, ret>>
    /\ UNCHANGED <<dfaVars, appVars>>

\* line 109: return filtered
PreReturn ==
    /\ pc = "loop"
    /\ idx > Len(rrIntervals)
    /\ pc' = "done"
    /\ ret' = filtered
    /\ UNCHANGED <<rrIntervals, idx, filtered, fate>>
    /\ UNCHANGED <<dfaVars, appVars>>

NextPre == PreShort \/ PreEnter \/ PreLoop \/ PreReturn

SpecPre == InitPre /\ [][NextPre]_vars

\* The same run on what the sensor can deliver: a 16-bit count of 1/1024 s
\* is a finite number >= 0.
\* part_000 line 170: (rrRaw / 1024) * 1000, exact in a double for every
\* 16-bit count
rrMs(rrRaw) == Dyadic(rrRaw * 125, 7)

\* counts of 1/1024 s: 0, 299.8, 799.8, 820.3, 1040.04, 1299.8 and 2000 ms
SensorRaws == {0, 307, 819, 840, 1065, 1331, 2048}

SensorVals == {rrMs(rrRaw) : rrRaw \in SensorRaws}

InitPreSensor ==
    /\ rrIntervals \in SeqsUpTo(SensorVals, MaxLen)
    /\ residue = NoRounding
    /\ pc = "entry"
    /\ PreIdle
    /\ DfaIdle
    /\ AppIdle

SpecPreSensor == InitPreSensor /\ [][NextPre]_vars

\* the step-by-step run and the function agree
PreRunMatchesFunction == pc = "done" => ret = preprocessRR(rrIntervals)

(***************************************************************************)
(* Claims about preprocessRR, checked under SpecPre.                       *)
(***************************************************************************)
\* a sample that is zero, negative, NaN or infinite
Malformed(a) == ~IsFinite(a) \/ a.v <= 0

\* input positions already handled by the loop
Handled == 1..Len(fate)

EmittedBefore(j) == \E h \in 1..(j - 1) : fate[h] # "drop"

(* C4: in every run of preprocessRR, a non-positive or non-finite sample   *)
(* is never emitted unchanged as an accepted sample: it is replaced, or    *)
(* dropped when nothing has been emitted before it.                        *)
C4_MalformedNeverAccepted ==
    \A j \in Handled :
        Malformed(rrIntervals[j]) =>
            /\ fate[j] # "accept"
            /\ fate[j] = "drop" => ~EmittedBefore(j)

\* number of samples in front of the first accepted one
LeadingInvalid ==
    IF \E j \in Handled : fate[j] = "accept"
    THEN (CHOOSE j \in Handled :
              /\ fate[j] = "accept"
              /\ \A h \in 1..(j - 1) : fate[h] # "accept") - 1
    ELSE Len(fate)

(* C5: for an input of 3 or more samples only samples in front of the      *)
(* first accepted one are dropped; every later sample yields exactly one   *)
(* output element, so the output is as long as the input less its leading  *)
(* invalid samples.                                                        *)
C5_OnlyLeadingDropped ==
    /\ \A j \in Handled : fate[j] = "drop" => ~EmittedBefore(j)
    /\ (pc = "done" /\ Len(rrIntervals) >= 3) =>
           Len(ret) = Len(rrIntervals) - LeadingInvalid

(* C6: an invalid sample with an emitted predecessor prev is replaced by   *)
(* (prev + next) / 2 whenever a following raw sample next exists, whatever *)
(* its value, and by prev when it is the last sample.                      *)
C6_InvalidReplacedByMean ==
    [][(/\ pc = "loop"
        /\ idx <= Len(rrIntervals)
        /\ ~IsValid(filtered, rrIntervals, idx)
        /\ Len(filtered) > 0)
       => filtered' = Append(filtered,
                             IF idx < Len(rrIntervals)
                             THEN Half(Add(Last(filtered), rrIntervals[idx + 1]))
                             ELSE Last(filtered))]_vars

\* val lies within [300, 1300] ms
WithinBounds(val) ==
    IsFinite(val) /\ ~Lt(val, Ms(MIN_RR)) /\ ~Gt(val, Ms(MAX_RR))

\* |val - ref| / |ref| <= 0.30
RelativeDifferenceAtMost30(val, ref) ==
    /\ IsFinite(val)
    /\ IsFinite(ref)
    /\ LET e == MaxOf(val.e, ref.e) IN
       10 * Magnitude(NumAt(val, e) - NumAt(ref, e)) <= 3 * Magnitude(NumAt(ref, e))

AcceptedBefore(j) == {h \in 1..(j - 1) : fate[h] = "accept"}

\* the most recent sample before j that was itself emitted unchanged
LastAcceptedBefore(j) ==
    rrIntervals[CHOOSE h \in AcceptedBefore(j) : \A g \in AcceptedBefore(j) : g <= h]

(* C7: a sample is emitted unchanged if and only if it lies within         *)
(* [300, 1300] ms and, once a sample has been accepted, differs by at most *)
(* 30% from the most recent sample that was itself emitted unchanged (not  *)
(* from a replacement value).                                              *)
C7_AcceptedIffNearLastAccepted ==
    \A j \in Handled :
        fate[j] = "accept" <=>
            /\ WithinBounds(rrIntervals[j])
            /\ AcceptedBefore(j) # {} =>
                   RelativeDifferenceAtMost30(rrIntervals[j], LastAcceptedBefore(j))

(* C12: for every input of length 0, 1 or 2, preprocessRR returns the      *)
(* input unchanged (same elements in the same order), whatever the values, *)
(* out-of-range and non-finite ones included.                              *)
C12_ShortInputUnchanged ==
    Len(rrIntervals) < 3 =>
        /\ preprocessRR(rrIntervals) = rrIntervals
        /\ pc = "done" => ret = rrIntervals

\* a returned two-sample input none of whose samples is within range
C12_Witness ==
    /\ pc = "done"
    /\ Len(rrIntervals) = 2
    /\ \A j \in 1..2 : ~WithinBounds(rrIntervals[j])
    /\ ret = rrIntervals

(***************************************************************************)
(* SpecDfa: the exported calculateDfaAlpha1 (line 112) called directly and *)
(* run step by step on arrays whose cleaned length lies around             *)
(* MIN_SAMPLES.  An input is `lead` invalid samples (dropped, nothing      *)
(* having been accepted yet) followed by a body.  The caller is not the    *)
(* App, which stays as mounted.                                            *)
(***************************************************************************)
\* most leading invalid samples of an input
MaxLead == 2

DfaShapes == {"flat", "alternating", "glitch", "lastJump", "step", "nan"}

\* body lengths: around the threshold, and 68 = 4 * 17, which only box size
\* 4 divides
DfaLens == ((MIN_SAMPLES - 3)..(MIN_SAMPLES + 2)) \cup {68}

\*  flat         800 ms throughout
\*  alternating  800, 820, 800, 820, ...
\*  glitch       800 ms with one 50 ms sample in third place
\*  lastJump     800 ms, the last sample 800 + m ms (mean exactly 801 ms)
\*  step         800 ms, the 13th sample 810 ms (a mean that is no dyadic
\*               rational unless the length is a power of two times 5);
\*               the integrated series is a straight line on either side
\*               of index 12, a box boundary for the box sizes 4, 6 and 12
\*  nan          800 ms with NaN in second place
Body(shape, m) ==
    [j \in 1..m |->
        CASE shape = "flat" -> Ms(800)
          [] shape = "alternating" -> IF j % 2 = 1 THEN Ms(800) ELSE Ms(820)
          [] shape = "glitch" -> IF j = 3 THEN Ms(50) ELSE Ms(800)
          [] shape = "lastJump" -> IF j = m THEN Ms(800 + m) ELSE Ms(800)
          [] shape = "step" -> IF j = 13 THEN Ms(810) ELSE Ms(800)
          [] shape = "nan" -> IF j = 2 THEN NaN ELSE Ms(800)]

Lead(n) == [j \in 1..n |-> Ms(50)]

DfaInputs ==
    {Lead(n) \o Body(shape, m) : n \in 0..MaxLead, shape \in DfaShapes, m \in DfaLens}

InitDfa ==
    /\ rrIntervals \in DfaInputs
    /\ residue = NoRounding
    /\ pc = "entry"
    /\ PreIdle
    /\ DfaIdle
    /\ AppIdle

\* line 114
DfaPreprocess ==
    /\ pc = "entry"
    /\ cleanRR' = preprocessRR(rrIntervals)
    /\ pc' = "check"
    /\ UNCHANGED <<rrIntervals, integratedSeries, boxAt, logN, alpha, previous, residue>>
    /\ UNCHANGED <<preVars, appVars>>

\* line 117: if (cleanRR.length < 50) return null
DfaInsufficient ==
    /\ pc = "check"
    /\ Len(cleanRR) < MIN_SAMPLES
    /\ alpha' = AlphaNull
    /\ pc' = "done"
    /\ UNCHANGED <<rrIntervals, cleanRR, integratedSeries, boxAt, logN, previous, residue>>
    /\ UNCHANGED <<preVars, appVars>>

\* mutant of DfaIntegrate: logN and logFn are declared outside the function
\* and keep the pairs of the call before
DfaIntegrate_keepsPairs ==
    /\ pc = "check"
    /\ Len(cleanRR) >= MIN_SAMPLES
    /\ integratedSeries' = Integrate(cleanRR)
    /\ \E res \in Roundings(residue, cleanRR) :
           residue' = Remember(residue, cleanRR, res)
    /\ boxAt' = 1
    /\ pc' = "boxes"
    /\ UNCHANGED <<rrIntervals, cleanRR, logN, alpha, previous>>
    /\ UNCHANGED <<preVars, appVars>>

\* mutant of DfaIntegrate: the integration is entered whatever the cleaned
\* length
DfaIntegrate_unguarded ==
    /\ pc = "check"
    /\ integratedSeries' = Integrate(cleanRR)
    /\ \E res \in Roundings(residue, cleanRR) :
           residue' = Remember(residue, cleanRR, res)
    /\ boxAt' = 1
    /\ logN' = <<>>
    /\ pc' = "boxes"
    /\ UNCHANGED <<rrIntervals, cleanRR, alpha, previous>>
    /\ UNCHANGED <<preVars, appVars>>

\* lines 119-132
DfaIntegrate ==
    /\ pc = "check"
    /\ Len(cleanRR) >= MIN_SAMPLES
    /\ integratedSeries' = Integrate(cleanRR)
    /\ \E res \in Roundings(residue, cleanRR) :
           residue' = Remember(residue, cleanRR, res)
    /\ boxAt' = 1
    /\ logN' = <<>>
    /\ pc' = "boxes"
    /\ UNCHANGED <<rrIntervals, cleanRR, alpha, previous>>
    /\ UNCHANGED <<preVars, appVars>>

\* lines 134-140: one iteration of the box-size loop
DfaBox ==
    /\ pc = "boxes"
    /\ boxAt <= Len(boxSizes)
    /\ logN' = RecordBox(integratedSeries, logN, boxSizes[boxAt],
                       ResidueOf(residue, cleanRR))
    /\ boxAt' = boxAt + 1
    /\ UNCHANGED <<rrIntervals, pc, cleanRR, integratedSeries, alpha, previous, residue>>
    /\ UNCHANGED <<preVars, appVars>>

\* lines 143-145
DfaRegress ==
    /\ pc = "boxes"
    /\ boxAt > Len(boxSizes)
    /\ alpha' = FinalSlope(logN)
    /\ pc' = "done"
    /\ UNCHANGED <<rrIntervals, cleanRR, integratedSeries, boxAt, logN, previous, residue>>
    /\ UNCHANGED <<preVars, appVars>>

\* line 112: the caller calls the function again, on the same array.
\* Nothing is reset between the calls: the next call starts in the state
\* the call before left, and what it reads it has to set itself, as the
\* declarations of lines 114, 121-122 and 130-132 do.
DfaCallAgain ==
    /\ pc = "done"
    /\ previous' = Returned(alpha, cleanRR, integratedSeries, logN)
    /\ pc' = "entry"
    /\ UNCHANGED <<rrIntervals, cleanRR, integratedSeries, boxAt, logN, alpha,
                   residue>>
    /\ UNCHANGED <<preVars, appVars>>

NextDfa ==
    \/ DfaPreprocess
    \/ DfaInsufficient
    \/ DfaIntegrate
    \/ DfaBox
    \/ DfaRegress
    \/ DfaCallAgain

SpecDfa == InitDfa /\ [][NextDfa]_vars

\* the step-by-step run and the function agree
DfaRunMatchesFunction ==
    pc = "done" =>
        alpha = calculateDfaAlpha1(rrIntervals,
                                   ResidueOf(residue,
                                             preprocessRR(rrIntervals)))

(***************************************************************************)
(* Claims about calculateDfaAlpha1, checked under SpecDfa.                 *)
(***************************************************************************)
\* the run went through the box-size loop and returned
RegressionDone == pc = "done" /\ boxAt > Len(boxSizes)

(* C3: when fewer than 2 (log n, log F(n)) pairs are recorded,             *)
(* calculateDfaAlpha1 returns null: the slope is never the outcome of a    *)
(* division by a zero denominator.                                         *)
C3_FewPairsReturnNull ==
    (RegressionDone /\ Len(logN) < 2) => alpha = AlphaNull

(* C8: calculateDfaAlpha1 returns null whenever the cleaned sequence has   *)
(* fewer than 50 samples and a numeric alpha1 whenever it has exactly 50.  *)
C8_ThresholdOnCleanedLength ==
    pc = "done" =>
        /\ Len(cleanRR) < MIN_SAMPLES => alpha = AlphaNull
        /\ Len(cleanRR) = MIN_SAMPLES => alpha.k = "num"

\* a call has returned and the call before it, on the same array, too
CalledTwice == pc = "done" /\ previous.result # NoResult

\* the slope is computed (lines 134-145) from the recorded box sizes and
\* from F(n) of the integrated series at these sizes, calculateF_n and
\* linearRegression reading nothing but their arguments (lines 7-50): two
\* calls that return a number return the same number when they arrive at
\* the same cleaned sequence, the same integrated series and the same
\* recorded box sizes
SameAsPrevious ==
    /\ alpha = previous.result
    /\ alpha # AlphaNull =>
           /\ cleanRR = previous.clean
           /\ integratedSeries = previous.series
           /\ logN = previous.pairs

(* C11: calculateDfaAlpha1 is a pure function of its argument: no step of  *)
(* a call changes the array passed in, the rolling buffer or any other     *)
(* state of the mounted App, and a second call on the same array, started  *)
(* in the state the first call left behind, returns what the first call    *)
(* returned and computes it from the same cleaned sequence, integrated     *)
(* series and recorded box sizes.                                          *)
C11_PureFunction ==
    [][/\ rrIntervals' = rrIntervals
       /\ UNCHANGED appVars
       /\ CalledTwice' => SameAsPrevious']_vars

\* the second call on an array with dropped leading samples, which the
\* array still holds, has returned a number computed from at least two
\* pairs, the first call having left its own pairs behind
C11_Witness ==
    /\ CalledTwice
    /\ alpha.k = "num"
    /\ SameAsPrevious
    /\ Len(logN) >= 2
    /\ Len(previous.pairs) >= 2
    /\ Len(cleanRR) < Len(rrIntervals)
    /\ Len(rrIntervals) > MIN_SAMPLES

\* the integration step has been run
Integrated == pc = "boxes" \/ RegressionDone

\* the denominator length * 2^e the sums of a cleaned sequence are counted in
SumUnit(clean) == Len(clean) * Pow2(MaxExp(clean, 1, Len(clean)))

\* sum over i = 1..k of (clean[i] - mean), in units of 1 / SumUnit ms
DeviationSum(clean, k) ==
    LET e == MaxExp(clean, 1, Len(clean)) IN
    Len(clean) * SumV(clean, e, 1, k) - k * SumV(clean, e, 1, Len(clean))

\* element k of the series, in the same units
SeriesElement(series, clean, k) ==
    series.num[k] * (SumUnit(clean) \div series.den)

(* C13: the integrated series built in calculateDfaAlpha1 is as long as    *)
(* the cleaned sequence, its element k is the sum over i = 0..k of         *)
(* (sample[i] - mean), and its first element is sample[0] - mean.  When    *)
(* the cleaned sequence holds a non-finite sample, the sums and the        *)
(* elements are non-finite alike.  The sums are those of the series as the *)
(* model keeps it: the doubles themselves when the mean is a dyadic        *)
(* rational, the values they round otherwise.                              *)
C13_IntegratedSeries ==
    Integrated =>
        /\ Len(integratedSeries.num) = Len(cleanRR)
        /\ integratedSeries.finite = AllFinite(cleanRR)
        /\ integratedSeries.finite =>
               /\ SumUnit(cleanRR) % integratedSeries.den = 0
               /\ \A k \in 1..Len(cleanRR) :
                      SeriesElement(integratedSeries, cleanRR, k) =
                          DeviationSum(cleanRR, k)
               /\ SeriesElement(integratedSeries, cleanRR, 1) =
                      LET e == MaxExp(cleanRR, 1, Len(cleanRR)) IN
                      Len(cleanRR) * NumAt(cleanRR[1], e)
                          - SumV(cleanRR, e, 1, Len(cleanRR))

\* a finite series that is not constant, built from a window whose leading
\* samples were dropped
C13_Witness ==
    /\ Integrated
    /\ integratedSeries.finite
    /\ integratedSeries.num[1] # 0
    /\ Len(cleanRR) < Len(rrIntervals)

\* the run is in the box-size loop, about to call calculateF_n
InBoxLoop == pc = "boxes" /\ boxAt <= Len(boxSizes)

(* C14: whenever calculateDfaAlpha1 is in its box-size loop the integrated *)
(* series has at least 50 elements, so for every box size n in 4..16       *)
(* calculateF_n runs with numBoxes = floor(length / n) >= 3, never with    *)
(* numBoxes = 0.                                                           *)
C14_AtLeastThreeBoxes ==
    InBoxLoop =>
        /\ Len(integratedSeries.num) >= MIN_SAMPLES
        /\ \A b \in 1..Len(boxSizes) :
               numBoxesOf(integratedSeries, boxSizes[b]) >= 3

\* the largest box size about to be applied to a series of exactly 50
\* elements cleaned from a longer window
C14_Witness ==
    /\ InBoxLoop
    /\ boxAt = Len(boxSizes)
    /\ Len(integratedSeries.num) = MIN_SAMPLES
    /\ Len(rrIntervals) > MIN_SAMPLES
    /\ numBoxesOf(integratedSeries, boxSizes[boxAt]) = 3

(***************************************************************************)
(* The App (App.tsx 10-78): the onData callback handed to the monitor.     *)
(***************************************************************************)
DFA_WINDOW_WIDTH == 200
BUFFER_HEADROOM == 50
HISTORY_GAP_MS == 2000

\* most onData calls in a run
MaxDeliveries == 2

\* Array.prototype.slice(-n)
SliceLast(s, n) ==
    IF Len(s) <= n THEN s ELSE SubSeq(s, Len(s) - n + 1, Len(s))

\* mutant of appendBatch: truncation keeps the oldest samples
appendBatch_keepsOldest(buffer, batch) ==
    LET appended == buffer \o batch IN
    IF Len(appended) > DFA_WINDOW_WIDTH + BUFFER_HEADROOM
    THEN SubSeq(appended, 1, DFA_WINDOW_WIDTH + BUFFER_HEADROOM)
    ELSE appended

\* lines 34-40: append, then cap at DFA_WINDOW_WIDTH + 50
appendBatch(buffer, batch) ==
    LET appended == buffer \o batch IN
    IF Len(appended) > DFA_WINDOW_WIDTH + BUFFER_HEADROOM
    THEN SliceLast(appended, DFA_WINDOW_WIDTH + BUFFER_HEADROOM)
    ELSE appended

\* line 45
readyForComputation(buffer) == Len(buffer) >= DFA_WINDOW_WIDTH

\* mutant of windowSlice: the whole buffer is handed over
windowSlice_wholeBuffer(buffer) == buffer

\* line 46
windowSlice(buffer) == SliceLast(buffer, DFA_WINDOW_WIDTH)

\* mutant of recordPoint: a gap of exactly 2000 ms is enough
recordPoint_atLeastGap(prev, t, a, hr) ==
    IF Len(prev) = 0 \/ t - Last(prev).timestamp >= HISTORY_GAP_MS
    THEN Append(prev, [timestamp |-> t, alpha1 |-> a, heartRate |-> hr])
    ELSE prev

\* lines 51-59: the setHistory updater
recordPoint(prev, t, a, hr) ==
    IF Len(prev) = 0 \/ t - Last(prev).timestamp > HISTORY_GAP_MS
    THEN Append(prev, [timestamp |-> t, alpha1 |-> a, heartRate |-> hr])
    ELSE prev

\* App.tsx 12-17 and 64-72: the btState that onStatus(isConnected, error)
\* asks for
StatusOf(isConnected, error) ==
    [isConnected |-> isConnected, isConnecting |-> FALSE,
     deviceName |-> IF isConnected THEN "HR Monitor" ELSE "null",
     error |-> error]

(***************************************************************************)
(* The state setters.  A call of a setter changes nothing at once: React   *)
(* keeps it and applies the calls kept, in the order they were made, when  *)
(* it next renders the App.  When that is, is up to React: right after the *)
(* call, or after the handler has returned and others have run.            *)
(***************************************************************************)
\* line 31: setHeartRate(hr)
setHeartRate(hr) ==
    [hook |-> "heartRate", hr |-> hr, alpha |-> AlphaNull,
     status |-> Disconnected("null")]

\* line 50: setCurrentAlpha1(alpha)
setCurrentAlpha1(a) ==
    [hook |-> "currentAlpha1", hr |-> 0, alpha |-> a,
     status |-> Disconnected("null")]

\* lines 51-59: setHistory with an updater that holds alpha and hr
setHistory(a, hr) ==
    [hook |-> "history", hr |-> hr, alpha |-> a,
     status |-> Disconnected("null")]

\* lines 65-71: setBtState with the updater of onStatus
setBtState(isConnected, error) ==
    [hook |-> "btState", hr |-> 0, alpha |-> AlphaNull,
     status |-> StatusOf(isConnected, error)]

\* line 81: setBtState with the updater of handleConnect
setConnecting ==
    [hook |-> "connecting", hr |-> 0, alpha |-> AlphaNull,
     status |-> Disconnected("null")]

\* mutant of resultUpdates: the result is displayed and recorded whatever
\* it is
resultUpdates_unguarded(a, hr) == <<setCurrentAlpha1(a), setHistory(a, hr)>>

\* lines 49-60: a null result asks for nothing
resultUpdates(a, hr) ==
    IF a # AlphaNull THEN <<setCurrentAlpha1(a), setHistory(a, hr)>> ELSE <<>>

\* what a delivery can carry: the batch sizes and the samples in them
BatchSizes == {1, MIN_SAMPLES, DFA_WINDOW_WIDTH,
               DFA_WINDOW_WIDTH + BUFFER_HEADROOM + 1}
BatchShapes == {"flat", "alternating", "zero"}
ClockSteps == {0, HISTORY_GAP_MS, HISTORY_GAP_MS + 1}
HeartRates == {60}

\*  flat         a count of 819 (799.8 ms) throughout
\*  alternating  counts of 819 and 840 (820.3 ms) in turn
\*  zero         a count of 0 throughout
Batch(shape, m) ==
    [j \in 1..m |->
        CASE shape = "flat" -> rrMs(819)
          [] shape = "alternating" -> IF j % 2 = 1 THEN rrMs(819) ELSE rrMs(840)
          [] shape = "zero" -> rrMs(0)]

Batches == {<<>>} \cup {Batch(shape, m) : shape \in BatchShapes, m \in BatchSizes}

\* line 47 on a window: the cleaned sequence, the box sizes at which the
\* rounding decides, and what calculateDfaAlpha1 returns for each outcome
\* of the rounding
Computation(w) ==
    LET clean == preprocessRR(w)
        rounded == RoundedOf(clean)
    IN  [window |-> w, clean |-> clean, rounded |-> rounded,
         results |-> {[res |-> r, result |-> calculateDfaAlpha1(w, r)] :
                          r \in SUBSET rounded}]

\* the buffers that n deliveries can leave
RECURSIVE BuffersAfter(_)
BuffersAfter(n) ==
    IF n = 0 THEN {<<>>}
    ELSE LET before == BuffersAfter(n - 1) IN
         before \cup {appendBatch(b, batch) : b \in before, batch \in Batches}

\* the windows the deliveries of a run can hand to calculateDfaAlpha1, and
\* the computation on each of them, evaluated once for all the states in
\* which a delivery arrives at it
AppWindows ==
    {windowSlice(b) : b \in {c \in BuffersAfter(MaxDeliveries) :
                                readyForComputation(c)}}

Computations == {Computation(w) : w \in AppWindows}

ComputationOf(w) ==
    IF \E c \in Computations : c.window = w
    THEN CHOOSE c \in Computations : c.window = w
    ELSE Computation(w)

ResultOf(c, res) == (CHOOSE r \in c.results : r.res = res).result

Init ==
    /\ rrIntervals = <<>>
    /\ residue = NoRounding
    /\ pc = "idle"
    /\ PreIdle
    /\ DfaIdle
    /\ AppIdle

\* lines 30-63: the monitor calls onData(hr, batch).  The buffer is written
\* and calculateDfaAlpha1 is called before onData returns; what is
\* displayed changes when React renders
OnData(hr, batch) ==
    /\ notifying
    /\ deliveries < MaxDeliveries
    /\ deliveries' = deliveries + 1
    /\ delivered' = delivered \o batch
    /\ IF Len(batch) > 0
       THEN LET buffer == appendBatch(rrBuffer, batch) IN
            /\ rrBuffer' = buffer
            /\ IF readyForComputation(buffer)
               THEN LET c == ComputationOf(windowSlice(buffer)) IN
                    \E res \in RoundingsAmong(residue, c.clean, c.rounded) :
                    LET a == ResultOf(c, res) IN
                    /\ residue' = RememberAmong(residue, c.clean, c.rounded,
                                                res)
                    /\ dfaArg' = CalledWith(windowSlice(buffer), a)
                    /\ queued' = Append(queued, setHeartRate(hr))
                                     \o resultUpdates(a, hr)
               ELSE /\ dfaArg' = NotCalled
                    /\ queued' = Append(queued, setHeartRate(hr))
                    /\ UNCHANGED residue
       ELSE /\ dfaArg' = NotCalled
            /\ queued' = Append(queued, setHeartRate(hr))
            /\ UNCHANGED <<rrBuffer, residue>>
    /\ UNCHANGED <<btState, heartRate, currentAlpha1, history, now>>
    /\ UNCHANGED <<sessionStart, connects, device, linkUp, notifying, clicks>>
    /\ UNCHANGED <<rrIntervals, pc, preVars>>
    /\ UNCHANGED <<cleanRR, integratedSeries, boxAt, logN, alpha, previous>>

\* what is displayed
Shown ==
    [btState |-> btState, heartRate |-> heartRate,
     currentAlpha1 |-> currentAlpha1, history |-> history, now |-> now]

\* one kept setter call applied at a render; the updater of setHistory
\* reads Date.now() (line 54), `tick` ms after the clock was last read
applyUpdate(shown, u, tick) ==
    CASE u.hook = "heartRate" -> [shown EXCEPT !.heartRate = u.hr]
      [] u.hook = "currentAlpha1" -> [shown EXCEPT !.currentAlpha1 = u.alpha]
      [] u.hook = "history" ->
             [shown EXCEPT !.history = recordPoint(shown.history,
                                                   shown.now + tick,
                                                   u.alpha, u.hr),
                           !.now = shown.now + tick]
      [] u.hook = "btState" -> [shown EXCEPT !.btState = u.status]
      [] u.hook = "connecting" ->
             [shown EXCEPT !.btState = [shown.btState EXCEPT
                                            !.isConnecting = TRUE,
                                            !.error = "null"]]

\* the kept calls that read the clock
HistoryAt(queue) == {k \in 1..Len(queue) : queue[k].hook = "history"}

RECURSIVE applyUpdates(_, _, _, _)
applyUpdates(shown, queue, k, ticks) ==
    IF k > Len(queue) THEN shown
    ELSE applyUpdates(applyUpdate(shown, queue[k],
                                  IF k \in DOMAIN ticks THEN ticks[k] ELSE 0),
                      queue, k + 1, ticks)

\* React renders the App: the setter calls kept are applied in order
Render ==
    /\ queued # <<>>
    /\ \E ticks \in [HistoryAt(queued) -> ClockSteps] :
           LET shown == applyUpdates(Shown, queued, 1, ticks) IN
           /\ btState' = shown.btState
           /\ heartRate' = shown.heartRate
           /\ currentAlpha1' = shown.currentAlpha1
           /\ history' = shown.history
           /\ now' = shown.now
    /\ queued' = <<>>
    /\ UNCHANGED <<rrBuffer, delivered, dfaArg, deliveries, sessionStart,
                   connects, device, linkUp, notifying, clicks>>
    /\ UNCHANGED <<rrIntervals, pc, preVars, dfaVars>>

\* mutant of OnStatus: a new connection starts from an empty buffer
OnStatus_clearsOnConnect(isConnected, error) ==
    /\ queued' = Append(queued, setBtState(isConnected, error))
    /\ sessionStart' = IF isConnected THEN Len(delivered) ELSE sessionStart
    /\ rrBuffer' = IF isConnected THEN <<>> ELSE rrBuffer
    /\ UNCHANGED <<btState, currentAlpha1, history, heartRate, now, delivered,
                   dfaArg, deliveries>>
    /\ UNCHANGED <<rrIntervals, pc, preVars, dfaVars>>

\* lines 64-72: the monitor calls onStatus(isConnected, error)
OnStatus(isConnected, error) ==
    /\ queued' = Append(queued, setBtState(isConnected, error))
    /\ sessionStart' = IF isConnected THEN Len(delivered) ELSE sessionStart
    /\ UNCHANGED <<rrBuffer, btState, currentAlpha1, history, heartRate, now,
                   delivered, dfaArg, deliveries>>
    /\ UNCHANGED <<rrIntervals, pc, preVars, dfaVars>>

(***************************************************************************)
(* BluetoothMonitor (bluetoothService.ts 83-134).  A connect() call is at  *)
(* one of its awaits:                                                      *)
(*   "request"  requestDevice (line 96)                                    *)
(*   "gatt"     gatt.connect() (line 110); handleDisconnect listens on the *)
(*              device since line 104 and is never removed                 *)
(*   "setup"    getPrimaryService, getCharacteristic, startNotifications   *)
(*              (lines 111-114)                                            *)
(*   "lost"     one of the awaits of "setup", the link having gone down:   *)
(*              the promise is rejected, the catch has not run yet         *)
(* Several calls can be under way: the Connect button is enabled again as  *)
(* soon as an onStatus has been rendered, whichever call or event sent it. *)
(* One heart-rate monitor is in range: every device with a gatt that       *)
(* requestDevice resolves with is this monitor.                            *)
(***************************************************************************)
\* most connect() calls in a run
MaxConnects == 2

Without(s, i) == [j \in 1..(Len(s) - 1) |-> IF j < i THEN s[j] ELSE s[j + 1]]

\* messages of the errors thrown by the browser, "" for one without message
BrowserMessages == {"User cancelled the requestDevice() chooser.", ""}

\* the error.message a connect() call at the given await can end with: its
\* own throws (lines 101, 107) follow requestDevice
Thrown(stage) ==
    IF stage = "request"
    THEN {"No device selected", "GATT not available on device"}
             \cup BrowserMessages
    ELSE BrowserMessages

\* lines 96-108: this.device when the call ends with the message: null
\* (line 101) or a device without gatt (line 107) when requestDevice had
\* resolved, as it was otherwise
DeviceAfter(stage, message, dev) ==
    IF stage = "request" /\ message = "No device selected" THEN "null"
    ELSE IF stage = "request" /\ message = "GATT not available on device"
         THEN "no gatt"
    ELSE dev

\* line 121: error.message || 'Connection failed'
MessageOf(message) == IF message = "" THEN "Connection failed" ELSE message

\* App.tsx 80-83: the Connect button, rendered while not connected and
\* disabled while connecting (lines 100-103), starts monitor.connect()
HandleConnect ==
    /\ ~btState.isConnected
    /\ ~btState.isConnecting
    /\ clicks < MaxConnects
    /\ clicks' = clicks + 1
    /\ queued' = Append(queued, setConnecting)
    /\ connects' = Append(connects, "request")
    /\ UNCHANGED <<rrBuffer, btState, currentAlpha1, history, heartRate, now,
                   delivered, dfaArg, deliveries, sessionStart, device, linkUp,
                   notifying>>
    /\ UNCHANGED <<rrIntervals, pc, preVars, dfaVars>>

\* lines 96-110: requestDevice resolved with a device that has a gatt; the
\* call registers handleDisconnect and awaits gatt.connect()
RequestResolves(i) ==
    /\ connects[i] = "request"
    /\ connects' = [connects EXCEPT ![i] = "gatt"]
    /\ device' = "HR Monitor"
    /\ UNCHANGED <<linkUp, notifying, clicks>>
    /\ UNCHANGED appData
    /\ UNCHANGED <<btState, sessionStart>>
    /\ UNCHANGED <<rrIntervals, pc, preVars, dfaVars>>

\* lines 110-111: gatt.connect() resolved, the link is up; the call awaits
\* the service, the characteristic and the start of the notifications
GattConnects(i) ==
    /\ connects[i] = "gatt"
    /\ connects' = [connects EXCEPT ![i] = "setup"]
    /\ linkUp' = TRUE
    /\ UNCHANGED <<device, notifying, clicks>>
    /\ UNCHANGED appData
    /\ UNCHANGED <<btState, sessionStart>>
    /\ UNCHANGED <<rrIntervals, pc, preVars, dfaVars>>

\* lines 114-118: startNotifications resolved; the call registers
\* handleCharacteristicValueChanged and reports onStatus(true)
ConnectSucceeds(i) ==
    /\ connects[i] = "setup"
    /\ linkUp
    /\ connects' = Without(connects, i)
    /\ notifying' = TRUE
    /\ UNCHANGED <<device, linkUp, clicks>>
    /\ OnStatus(TRUE, "null")

\* lines 119-122: an await of the call was rejected, or the call threw at
\* line 101 or 107; the link stays as it is
ConnectFails(i, message) ==
    /\ message \in Thrown(connects[i])
    /\ connects' = Without(connects, i)
    /\ device' = DeviceAfter(connects[i], message, device)
    /\ UNCHANGED <<linkUp, notifying, clicks>>
    /\ OnStatus(FALSE, MessageOf(message))

\* the link went down: the awaits of "setup" are rejected, the
\* notifications stop, and the device raises gattserverdisconnected, on
\* which handleDisconnect (lines 131-134) reports onStatus(false)
LinkDown ==
    /\ linkUp' = FALSE
    /\ notifying' = FALSE
    /\ connects' = [j \in 1..Len(connects) |->
                        IF connects[j] = "setup" THEN "lost" ELSE connects[j]]
    /\ UNCHANGED <<device, clicks>>
    /\ OnStatus(FALSE, "null")

\* lines 131-134: the device raised gattserverdisconnected
HandleDisconnect ==
    /\ linkUp
    /\ LinkDown

\* lines 125-129: disconnect() (App.tsx 76 calls it from the cleanup of the
\* effect); gatt.disconnect() takes the link down
Disconnect ==
    /\ device = "HR Monitor"
    /\ linkUp
    /\ LinkDown

Next ==
    \/ \E hr \in HeartRates, batch \in Batches : OnData(hr, batch)
    \/ Render
    \/ HandleConnect
    \/ \E i \in 1..Len(connects) : RequestResolves(i)
    \/ \E i \in 1..Len(connects) : GattConnects(i)
    \/ \E i \in 1..Len(connects) : ConnectSucceeds(i)
    \/ \E i \in 1..Len(connects) : \E message \in Thrown(connects[i]) :
           ConnectFails(i, message)
    \/ HandleDisconnect
    \/ Disconnect

Spec == Init /\ [][Next]_vars

(***************************************************************************)
(* Claims about the App, checked under Spec.                               *)
(***************************************************************************)
BufferCap == DFA_WINDOW_WIDTH + BUFFER_HEADROOM

\* the setter calls a step adds to those kept
NewlyQueued ==
    IF Len(queued') > Len(queued)
    THEN SubSeq(queued', Len(queued) + 1, Len(queued'))
    ELSE <<>>

\* the kept calls of setCurrentAlpha1 and setHistory
DisplayUpdates(queue) ==
    {k \in 1..Len(queue) : queue[k].hook \in {"currentAlpha1", "history"}}

IsAlphaUpdate(u) == u.hook = "currentAlpha1"

\* a step in which React renders
Rendering == queued # <<>> /\ queued' = <<>>

(* C1: after any sequence of deliveries the rolling buffer holds at most   *)
(* windowWidth + 50 samples and is exactly the most recent                 *)
(* min(total delivered, windowWidth + 50) samples, in arrival order.       *)
C1_BufferIsMostRecent ==
    LET total == Len(delivered)
        kept  == IF total < BufferCap THEN total ELSE BufferCap
    IN  /\ Len(rrBuffer) = kept
        /\ \A j \in 1..kept : rrBuffer[j] = delivered[total - kept + j]

\* more than the cap was delivered, in two batches, and the buffer holds
\* samples that differ
C1_Witness ==
    /\ deliveries >= 2
    /\ Len(delivered) > BufferCap
    /\ Len(rrBuffer) = BufferCap
    /\ rrBuffer[1] # Last(rrBuffer)

(* C2: on every delivery of a non-empty batch calculateDfaAlpha1 is called *)
(* if and only if the buffer, after append and truncation, holds at least  *)
(* 200 samples, and its argument is exactly the last 200 of them.          *)
C2_CalledOnLast200 ==
    [][Len(delivered') > Len(delivered) =>
         /\ dfaArg'.called <=> Len(rrBuffer') >= DFA_WINDOW_WIDTH
         /\ dfaArg'.called =>
              /\ Len(dfaArg'.arg) = DFA_WINDOW_WIDTH
              /\ \A j \in 1..DFA_WINDOW_WIDTH :
                     dfaArg'.arg[j] =
                         rrBuffer'[Len(rrBuffer') - DFA_WINDOW_WIDTH + j]]_vars

\* a call made while the buffer holds more than the window
C2_Witness ==
    /\ dfaArg.called
    /\ Len(rrBuffer) > DFA_WINDOW_WIDTH
    /\ rrBuffer[1] # dfaArg.arg[1]

(* C9: a delivery whose recomputation returns null leaves the displayed    *)
(* alpha1 and the history as they were and asks for no change of either,   *)
(* and no null is ever kept for display; so the displayed alpha1, once it  *)
(* holds a value, never returns to null, and the history never loses an    *)
(* entry, whenever React renders.                                          *)
C9_NullKeepsDisplay ==
    [][/\ (deliveries' > deliveries /\ dfaArg'.called
              /\ dfaArg'.result = AlphaNull) =>
              /\ currentAlpha1' = currentAlpha1
              /\ history' = history
              /\ DisplayUpdates(NewlyQueued) = {}
       /\ \A k \in DisplayUpdates(queued') : queued'[k].alpha # AlphaNull
       /\ currentAlpha1 # AlphaNull => currentAlpha1' # AlphaNull
       /\ Len(history') >= Len(history)
       /\ \A j \in 1..Len(history) : history'[j] = history[j]]_vars

\* a value is displayed, a point is in the history, the last delivery's
\* recomputation returned null, and everything asked for has been rendered
C9_Witness ==
    /\ dfaArg.called
    /\ dfaArg.result = AlphaNull
    /\ currentAlpha1 # AlphaNull
    /\ Len(history) > 0
    /\ deliveries = 2
    /\ queued = <<>>

HistoryGapsOver2000 ==
    \A j \in 1..(Len(history) - 1) :
        history[j + 1].timestamp - history[j].timestamp > HISTORY_GAP_MS

(* C10: under a non-decreasing clock a successful computation always asks  *)
(* for the current alpha1 to take its result and for a history point, in   *)
(* this order; a render leaves the current alpha1 at the result of the     *)
(* latest successful computation it applies; a point enters the history    *)
(* only when the history is empty or more than 2000 ms after its last      *)
(* point, with the result and the heart rate of a computation applied and  *)
(* the clock as read; consecutive history timestamps differ by more than   *)
(* 2000 ms.                                                                *)
C10_HistoryThrottled ==
    [][/\ (deliveries' > deliveries /\ dfaArg'.called
              /\ dfaArg'.result # AlphaNull) =>
              LET n == Len(queued') IN
              /\ n >= Len(queued) + 3
              /\ queued'[n - 1] = setCurrentAlpha1(dfaArg'.result)
              /\ queued'[n] = setHistory(dfaArg'.result, queued'[n - 2].hr)
              /\ queued'[n - 2].hook = "heartRate"
       /\ Rendering =>
              LET asked == SelectSeq(queued, IsAlphaUpdate) IN
              currentAlpha1' = IF Len(asked) = 0 THEN currentAlpha1
                               ELSE Last(asked).alpha
       /\ \A j \in (Len(history) + 1)..Len(history') :
              /\ j = 1 \/ history'[j].timestamp - history'[j - 1].timestamp
                              > HISTORY_GAP_MS
              /\ history'[j].timestamp >= now
              /\ history'[j].timestamp <= now'
              /\ \E k \in HistoryAt(queued) :
                     queued[k] = setHistory(history'[j].alpha1,
                                            history'[j].heartRate)
       /\ \A j \in 1..Len(history) : j <= Len(history') /\ history'[j] = history[j]
       /\ HistoryGapsOver2000']_vars

\* a successful computation whose updater read the clock exactly 2000 ms
\* after the last recorded point: the current alpha1 took the new value,
\* the history did not
C10_Witness ==
    /\ dfaArg.called
    /\ dfaArg.result # AlphaNull
    /\ queued = <<>>
    /\ deliveries = 2
    /\ Len(history) = 1
    /\ now - Last(history).timestamp = HISTORY_GAP_MS
    /\ currentAlpha1 = dfaArg.result
    /\ currentAlpha1 # Last(history).alpha1

\* intervals delivered since the latest connect
SinceConnect == Len(delivered) - sessionStart

(* C15: the rolling buffer, the current alpha1 and the history change only *)
(* through the delivery of a non-empty batch: a delivery without intervals *)
(* and every connection status event (connect, failure, disconnect,        *)
(* reconnect) leave the buffer as it is and ask for no change of the       *)
(* current alpha1 or the history, which change only in a render that       *)
(* applies what a delivery asked for; the buffer is never cleared, and a   *)
(* window computed after a reconnect still holds the samples received      *)
(* before it.                                                              *)
C15_ChangeOnlyOnNonEmptyBatch ==
    [][/\ Len(delivered') = Len(delivered) =>
              /\ rrBuffer' = rrBuffer
              /\ DisplayUpdates(NewlyQueued) = {}
       /\ ~Rendering => UNCHANGED <<btState, currentAlpha1, history>>
       /\ (currentAlpha1' # currentAlpha1 \/ history' # history) =>
              DisplayUpdates(queued) # {}
       /\ Len(rrBuffer') >= Len(rrBuffer)
       /\ (deliveries' > deliveries /\ dfaArg'.called) =>
              \A j \in 1..(DFA_WINDOW_WIDTH - SinceConnect') :
                  dfaArg'.arg[j] =
                      delivered'[Len(delivered') - DFA_WINDOW_WIDTH + j]]_vars

\* a computation after a reconnect whose window is made up mostly of
\* samples received before the disconnect, rendered with the status
C15_Witness ==
    /\ btState.isConnected
    /\ dfaArg.called
    /\ queued = <<>>
    /\ sessionStart >= DFA_WINDOW_WIDTH
    /\ SinceConnect = 1
    /\ Len(rrBuffer) = sessionStart + 1

====
